---------------------------- MODULE Spec2Model ----------------------------
(***************************************************************************)
(* Model of src/rust/src/main.rs: one run of `main` against a Bitcoin node. *)
(*                                                                         *)
(* The program is a single sequential function.  Every RPC call and every  *)
(* write to the report file is one step of the model; the answer of the    *)
(* node or of the file system is drawn with \E from the answers that call  *)
(* can give (Ok with a value, or Err).  `?` returns Err from main,         *)
(* `expect` and an out-of-range index panic.  Every println! returns, or   *)
(* panics when standard output cannot be written; it belongs to the step   *)
(* of the call it follows.                                                 *)
(*                                                                         *)
(* Amounts are exact counts of atomic units (bitcoin::Amount), written as  *)
(* big * 2^24 BTC + sat so that amounts at which f64 arithmetic stops      *)
(* being exact to 8 decimals are in reach of the enumeration.  The program *)
(* converts amounts with to_btc(), computes in f64 and prints with {:.8}.  *)
(*                                                                         *)
(* Two specifications:                                                     *)
(*   MiningSpec  main from its first line to the block that confirms the   *)
(*               payment (lines 41-129);                                   *)
(*   Spec        main from "Extract all required transaction details" to   *)
(*               its end (lines 131-211), started in the state MiningSpec  *)
(*               ends in.                                                  *)
(***************************************************************************)
EXTENDS Integers, Sequences, FiniteSets, TLC

\* Longest output list of the payment transaction that is enumerated.
MaxOuts == 2

\* Coinbase maturity: blocks that must follow a coinbase before it is spendable.
Maturity == 100

\* Largest fee (atomic units) a single-input transaction pays in the model.
MaxFee == 1

-----------------------------------------------------------------------------
(* Values *)

None == "<none>"                  \* Option::None of an address / a block hash
Null == "<unset>"                 \* a local that is not yet bound

TraderAddress == "T"              \* trader_address (line 104)
Txid == "txid"                    \* txid returned by send_to_address (line 110)
BlockHash == "blockhash"
BlockHeight == 102
FundingAddress == "F"

\* Addresses the node knows, with what get_address_info answers for each on
\* the Miner wallet: A and B are the wallet's own, C is foreign, for D the
\* answer carries no ismine field, for E the call fails.
WalletAddrs == {"A", "B"}
OtherAddrs == {"C", "D", "E"}
Addrs == {TraderAddress} \cup WalletAddrs \cup OtherAddrs

\* get_address_info(addr) on the Miner wallet: Result<GetAddressInfoResult>,
\* of which only is_mine: Option<bool> is read.
get_address_info(addr) ==
    CASE addr \in WalletAddrs -> [ok |-> TRUE, is_mine |-> "true"]
      [] addr = "C"              -> [ok |-> TRUE, is_mine |-> "false"]
      [] addr = "D"              -> [ok |-> TRUE, is_mine |-> None]
      [] OTHER                   -> [ok |-> FALSE, is_mine |-> None]

\* An amount of big * 2^24 BTC + sat atomic units (2^24 BTC =
\* 1677721600000000 atomic units); sat stays far below 2^24 BTC, so two
\* records are the same amount only if they are equal.
Amt(b, s) == [big |-> b, sat |-> s]
Zero == Amt(0, 0)
AmtAdd(a, b) == Amt(a.big + b.big, a.sat + b.sat)
AmtSub(a, b) == Amt(a.big - b.big, a.sat - b.sat)
AmtNegative(a) == a.big < 0 \/ (a.big = 0 /\ a.sat < 0)

\* f64::abs (line 205)
Abs(a) == IF AmtNegative(a) THEN Amt(-a.big, -a.sat) ELSE a

\* Is the amount 2^24 BTC or more?  Below, an f64 holds it to better than
\* 10^-9 BTC; from there on its spacing is 3.7 * 10^-9 BTC.
Large(a) == a.big >= 1

\* Output values that are enumerated: a small one and one above 2^24 BTC.
Amounts == {Amt(0, 2), Amt(1, 1)}

\* A decoded output: script_pub_key.address (Option) and value.
Outputs == [address : Addrs \cup {None}, value : Amounts]

RECURSIVE SeqsUpTo(_, _)
SeqsUpTo(S, n) ==
    IF n = 0 THEN {<<>>}
    ELSE LET shorter == SeqsUpTo(S, n - 1)
         IN shorter \cup {Append(s, x) : s \in {t \in shorter : Len(t) = n - 1}, x \in S}

RECURSIVE SumValues(_)
SumValues(outs) ==
    IF outs = <<>> THEN Zero ELSE AmtAdd(outs[1].value, SumValues(Tail(outs)))

\* decode_raw_transaction(&raw_tx): nin = vin.len(); vin0 tells which of
\* txid and vout the first input carries ("no_txid": txid is None,
\* "no_vout": txid is Some and vout is None, "ref": both are Some);
\* prev_vout is vin[0].vout; vout is the output list, possibly empty.
\* The supply is below 2 * 2^24 BTC, so the outputs sum to less than that.
DecodedTxs ==
    {tx \in [nin : {0, 1, 2}, vin0 : {"no_txid", "no_vout", "ref"},
             prev_vout : {0, 1}, vout : SeqsUpTo(Outputs, MaxOuts)] :
        /\ tx.nin = 0 => tx.vin0 = "no_txid"
        /\ tx.vin0 # "ref" => tx.prev_vout = 0
        /\ SumValues(tx.vout).big <= 1}

NoTx == [nin |-> 0, vin0 |-> "no_txid", prev_vout |-> 0, vout |-> <<>>]

\* The ledger never creates value: the outputs of a transaction sum to at
\* most the sum of the outputs it spends.  With one input the spent output
\* carries at least SumValues(vout); with more, the first input alone may
\* carry less.
FundingValues(tx) ==
    IF tx.nin = 1
    THEN {AmtAdd(SumValues(tx.vout), Amt(0, fee)) : fee \in 0 .. MaxFee}
    ELSE {Amt(0, 1), AmtAdd(SumValues(tx.vout), Amt(0, MaxFee))}

\* The output the first input spends: script_pub_key.addresses and value.
PrevOutputs(tx) ==
    [addresses : {<<>>, <<FundingAddress, "G">>},
     value : FundingValues(tx)]

-----------------------------------------------------------------------------
(* Pure parts of main *)

\* Option<bool>::unwrap_or(false)
UnwrapOrFalse(opt) == opt = "true"

\* lines 177-178: `if let Ok(address_info) = info { if address_info.is_mine.unwrap_or(false)`
OwnedByWallet_ErrIsOwned(info) == ~info.ok \/ UnwrapOrFalse(info.is_mine)
OwnedByWallet(info) == info.ok /\ UnwrapOrFalse(info.is_mine)

\* The four locals of the classification (lines 162-165).
NoClassification ==
    [trader_output_address |-> "", trader_output_amount |-> Zero,
     miner_change_address |-> "", miner_change_amount |-> Zero]

\* Does the loop body call get_address_info for this output (line 176)?
QueriesOwnership(vo, trader_address) ==
    vo.address # None /\ vo.address # trader_address

\* Variants of the loop body, used to test the properties below.
ClassifyOutput_SumChange(c, vo, trader_address) ==
    IF vo.address = None THEN c
    ELSE IF vo.address = trader_address
    THEN [c EXCEPT !.trader_output_address = vo.address,
                   !.trader_output_amount = vo.value]
    ELSE IF OwnedByWallet(get_address_info(vo.address))
    THEN [c EXCEPT !.miner_change_address = vo.address,
                   !.miner_change_amount = AmtAdd(c.miner_change_amount, vo.value)]
    ELSE c

ClassifyOutput_FirstChange(c, vo, trader_address) ==
    IF vo.address = None THEN c
    ELSE IF vo.address = trader_address
    THEN [c EXCEPT !.trader_output_address = vo.address,
                   !.trader_output_amount = vo.value]
    ELSE IF OwnedByWallet(get_address_info(vo.address)) /\ c.miner_change_address = ""
    THEN [c EXCEPT !.miner_change_address = vo.address,
                   !.miner_change_amount = vo.value]
    ELSE c

\* lines 168-184: the body of `for vout in &decoded_tx.vout`.
ClassifyOutput(c, vo, trader_address) ==
    IF vo.address = None THEN c
    ELSE IF vo.address = trader_address
    THEN [c EXCEPT !.trader_output_address = vo.address,
                   !.trader_output_amount = vo.value]
    ELSE IF OwnedByWallet(get_address_info(vo.address))
    THEN [c EXCEPT !.miner_change_address = vo.address,
                   !.miner_change_amount = vo.value]
    ELSE c

\* The error, in atomic units after rounding to 8 decimals, of the f64
\* computation a - b on to_btc() values.  While a and b are below 2^24 BTC
\* the conversions, the sum and the difference are off by less than
\* 5 * 10^-9 BTC together and {:.8} prints the exact amount; from 2^24 BTC
\* on they can be off by up to 7.5 * 10^-9 BTC, one unit either way.
F64Error(a, b) == IF Large(a) \/ Large(b) THEN {0 - 1, 0, 1} ELSE {0}

\* line 193: the values tx_fee can take, as the amount {:.8} prints for it.
TxFee_IgnoresChange(input_amount, trader_amount, change_amount) ==
    {AmtAdd(AmtSub(input_amount, trader_amount), Amt(0, e)) :
        e \in F64Error(input_amount, trader_amount)}
TxFee(input_amount, trader_amount, change_amount) ==
    {AmtAdd(AmtSub(input_amount, AmtAdd(trader_amount, change_amount)), Amt(0, e)) :
        e \in F64Error(input_amount, AmtAdd(trader_amount, change_amount))}

\* line 205: tx_fee.abs()
ReportedFee_Signed(fee) == fee
ReportedFee(fee) == Abs(fee)

\* A line of the report: a string printed as it is, an amount printed with
\* {:.8}, or an integer.
Text(s) == [kind |-> "text", text |-> s, num |-> Zero]
Btc8(a) == [kind |-> "btc8", text |-> "", num |-> a]
Num(n)  == [kind |-> "int", text |-> "", num |-> Amt(0, n)]

\* The write(2) calls one writeln! makes on the unbuffered File: one per
\* non-empty piece the formatter emits, and one for the newline.  A string
\* is one piece (none if empty), an integer one; {:.8} emits "0." and eight
\* zeros for 0, "0.", the leading zeros if any and the digits below 1 BTC,
\* the integer digits, "." and the fraction from 1 BTC on.
WritesOf(line) ==
    CASE line.kind = "text" -> IF line.text = "" THEN 1 ELSE 2
      [] line.kind = "int"  -> 2
      [] OTHER ->
           IF line.num = Zero THEN 3
           ELSE IF line.num.big = 0 /\ line.num.sat >= 10000000
                     /\ line.num.sat < 100000000 THEN 3
           ELSE 4

\* lines 156-158: input_addresses.first().map(..).unwrap_or_default()
FirstOrDefault(addresses) == IF addresses = <<>> THEN "" ELSE addresses[1]

\* line 154: &prev_decoded.vout[prev_vout]; FALSE is the index panic.
IndexInRange(prev_vout, n) == prev_vout < n

\* line 140: blockhash.expect(..); FALSE is the panic.
ExpectSome_Lenient(opt) == TRUE
ExpectSome(opt) == opt # None

-----------------------------------------------------------------------------
(* State *)

VARIABLES
    pc,                     \* the statement main is at
    result,                 \* "running", or how main ended: "Ok", "Err", "panic"
    error,                  \* the failure main ended with
    file,                   \* ../out.txt
    calls,                  \* the node and file-system calls issued since line 131
    \* lines 41-129
    wallets,                \* iterations of the wallet loop that are done
    funds,                  \* spendable funds the Miner wallet had before the run
    coinbase_age,           \* blocks on top of the wallet's oldest coinbase, -1 if none
    balance,
    blocks_mined,
    generate_calls,         \* generate_to_address calls issued
    sent,                   \* send_to_address has been issued
    \* lines 131-211
    tx_info_blockhash,      \* tx_info.info.blockhash
    block_height,
    decoded_tx,
    miner_input_address,
    miner_input_amount,
    trader_output_address,
    trader_output_amount,
    miner_change_address,
    miner_change_amount,
    i,                      \* position of the classification loop in decoded_tx.vout
    queried,                \* positions get_address_info was called for
    tx_fee

mining_vars == <<wallets, funds, coinbase_age, balance, blocks_mined,
                 generate_calls, sent>>
lookup_vars == <<tx_info_blockhash, block_height, decoded_tx,
                 miner_input_address, miner_input_amount>>
classify_vars == <<trader_output_address, trader_output_amount,
                   miner_change_address, miner_change_amount, i, queried>>
vars == <<pc, result, error, file, calls, mining_vars, lookup_vars,
          classify_vars, tx_fee>>

\* ../out.txt: the complete lines it holds, and how many write(2) calls of
\* the next line have reached it.
NoFile == [exists |-> FALSE, lines |-> <<>>, part |-> 0]
OldFile == [exists |-> TRUE, lines |-> <<Text("report of an earlier run")>>, part |-> 0]

\* `?` on an Err, a panic: main ends, nothing else changes.
Fail(kind, what) ==
    /\ pc' = "ended"
    /\ result' = kind
    /\ error' = what

\* println!: the message of its panic when standard output cannot be written.
StdoutPanic == "failed printing to stdout"

Goto(label) ==
    /\ pc' = label
    /\ UNCHANGED <<result, error>>

-----------------------------------------------------------------------------
(* Lines 131-211: the transaction details and the report *)

\* line 136-140: get_transaction(&txid)? and blockhash.expect(..)
GetTransaction ==
    /\ pc = "get_transaction"
    /\ calls' = calls \cup {"get_transaction"}
    /\ \/ /\ Fail("Err", "get_transaction")
          /\ UNCHANGED tx_info_blockhash
       \/ \E bh \in {None, BlockHash} :
             /\ tx_info_blockhash' = bh
             /\ IF ExpectSome(bh)
                THEN Goto("get_block_info")
                ELSE Fail("panic", "Transaction should be confirmed in a block")
    /\ UNCHANGED <<file, mining_vars, block_height, decoded_tx,
                   miner_input_address, miner_input_amount, classify_vars, tx_fee>>

\* lines 141-142: get_block_info(&block_hash)?
GetBlockInfo ==
    /\ pc = "get_block_info"
    /\ calls' = calls \cup {"get_block_info"}
    /\ \/ /\ Fail("Err", "get_block_info")
          /\ UNCHANGED block_height
       \/ /\ block_height' = BlockHeight
          /\ Goto("get_raw_transaction")
    /\ UNCHANGED <<file, mining_vars, tx_info_blockhash, decoded_tx,
                   miner_input_address, miner_input_amount, classify_vars, tx_fee>>

\* line 145: get_raw_transaction(&txid, Some(&block_hash))?
GetRawTransaction ==
    /\ pc = "get_raw_transaction"
    /\ calls' = calls \cup {"get_raw_transaction"}
    /\ \/ Fail("Err", "get_raw_transaction")
       \/ Goto("decode_raw_transaction")
    /\ UNCHANGED <<file, mining_vars, lookup_vars, classify_vars, tx_fee>>

\* line 146: decode_raw_transaction(&raw_tx)?
DecodeRawTransaction ==
    /\ pc = "decode_raw_transaction"
    /\ calls' = calls \cup {"decode_raw_transaction"}
    /\ \/ /\ Fail("Err", "decode_raw_transaction")
          /\ UNCHANGED decoded_tx
       \/ \E tx \in DecodedTxs :
             /\ decoded_tx' = tx
             /\ Goto("prev_raw_transaction")
    /\ UNCHANGED <<file, mining_vars, tx_info_blockhash, block_height,
                   miner_input_address, miner_input_amount, classify_vars, tx_fee>>

\* lines 149-152: &decoded_tx.vin[0], input.txid.expect(..),
\* input.vout.expect(..), get_raw_transaction(&prev_txid, None)?
GetPrevRawTransaction ==
    /\ pc = "prev_raw_transaction"
    /\ IF decoded_tx.nin = 0
       THEN /\ Fail("panic", "index out of bounds")
            /\ UNCHANGED calls
       ELSE IF decoded_tx.vin0 = "no_txid"
       THEN /\ Fail("panic", "Input should have txid")
            /\ UNCHANGED calls
       ELSE IF decoded_tx.vin0 = "no_vout"
       THEN /\ Fail("panic", "Input should have vout")
            /\ UNCHANGED calls
       ELSE /\ calls' = calls \cup {"get_raw_transaction(prev)"}
            /\ \/ Fail("Err", "get_raw_transaction(prev)")
               \/ Goto("prev_decode")
    /\ UNCHANGED <<file, mining_vars, lookup_vars, classify_vars, tx_fee>>

\* lines 153-166: decode_raw_transaction(&prev_tx)?, the referenced output,
\* the funding address and amount, the locals of the classification and the
\* println! before the loop; a transaction without outputs skips the loop.
DecodePrevTransaction ==
    /\ pc = "prev_decode"
    /\ calls' = calls \cup {"decode_raw_transaction(prev)"}
    /\ \/ /\ Fail("Err", "decode_raw_transaction(prev)")
          /\ UNCHANGED <<miner_input_address, miner_input_amount, classify_vars>>
       \/ \E n \in 1 .. 2 :
             IF IndexInRange(decoded_tx.prev_vout, n)
             THEN \E prev_output \in PrevOutputs(decoded_tx) :
                    /\ miner_input_address' = FirstOrDefault(prev_output.addresses)
                    /\ miner_input_amount' = prev_output.value
                    /\ trader_output_address' = NoClassification.trader_output_address
                    /\ trader_output_amount' = NoClassification.trader_output_amount
                    /\ miner_change_address' = NoClassification.miner_change_address
                    /\ miner_change_amount' = NoClassification.miner_change_amount
                    /\ UNCHANGED queried
                    /\ \/ /\ Fail("panic", StdoutPanic)
                          /\ UNCHANGED i
                       \/ /\ i' = 1
                          /\ Goto(IF decoded_tx.vout = <<>> THEN "create" ELSE "classify")
             ELSE /\ Fail("panic", "index out of bounds")
                  /\ UNCHANGED <<miner_input_address, miner_input_amount,
                                 classify_vars>>
    /\ UNCHANGED <<file, mining_vars, tx_info_blockhash, block_height, decoded_tx, tx_fee>>

\* lines 167-185: one iteration of `for vout in &decoded_tx.vout`; the
\* println! of line 170 runs for an output that has an address, before the
\* output is classified.
Classify ==
    /\ pc = "classify"
    /\ i <= Len(decoded_tx.vout)
    /\ LET vo == decoded_tx.vout[i]
           c == [trader_output_address |-> trader_output_address,
                 trader_output_amount |-> trader_output_amount,
                 miner_change_address |-> miner_change_address,
                 miner_change_amount |-> miner_change_amount]
           d == ClassifyOutput(c, vo, TraderAddress)
           asks == QueriesOwnership(vo, TraderAddress)
       IN \/ /\ vo.address # None
             /\ Fail("panic", StdoutPanic)
             /\ UNCHANGED <<classify_vars, calls>>
          \/ /\ trader_output_address' = d.trader_output_address
             /\ trader_output_amount' = d.trader_output_amount
             /\ miner_change_address' = d.miner_change_address
             /\ miner_change_amount' = d.miner_change_amount
             /\ queried' = IF asks THEN queried \cup {i} ELSE queried
             /\ calls' = IF asks THEN calls \cup {"get_address_info"} ELSE calls
             /\ i' = i + 1
             /\ Goto(IF i = Len(decoded_tx.vout) THEN "create" ELSE "classify")
    /\ UNCHANGED <<file, mining_vars, lookup_vars, tx_fee>>

\* lines 198-207: the ten lines of the report.
ReportLines ==
    << Text(Txid),
       Text(miner_input_address), Btc8(miner_input_amount),
       Text(trader_output_address), Btc8(trader_output_amount),
       Text(miner_change_address), Btc8(miner_change_amount),
       Btc8(ReportedFee(tx_fee)),
       Num(block_height), Text(tx_info_blockhash) >>

\* line 197: File::create (create or truncate).
CreateFile_KeepsContent(f) == [f EXCEPT !.exists = TRUE]
CreateFile(f) == [exists |-> TRUE, lines |-> <<>>, part |-> 0]

\* lines 187-197: the four println!, the fee, then File::create(out_path)?
CreateReport ==
    /\ pc = "create"
    /\ \/ /\ Fail("panic", StdoutPanic)
          /\ UNCHANGED <<tx_fee, calls, file>>
       \/ /\ \E fee \in TxFee(miner_input_amount, trader_output_amount,
                                miner_change_amount) :
                tx_fee' = fee
          /\ calls' = calls \cup {"File::create"}
          /\ \/ /\ Fail("Err", "File::create")
                /\ UNCHANGED file
             \/ /\ file' = CreateFile(file)
                /\ Goto("write")
    /\ UNCHANGED <<mining_vars, lookup_vars, classify_vars>>

\* One write(2) call of the writeln! main is at.
WriteCall(f, lines) ==
    IF f.part + 1 = WritesOf(lines[Len(f.lines) + 1])
    THEN [f EXCEPT !.lines = Append(@, lines[Len(@) + 1]), !.part = 0]
    ELSE [f EXCEPT !.part = @ + 1]

\* lines 198-207: one write(2) call of one writeln!(out_file, ..)?
Write ==
    /\ pc = "write"
    /\ Len(file.lines) < Len(ReportLines)
    /\ UNCHANGED calls
    /\ \/ /\ Fail("Err", "writeln")
          /\ UNCHANGED file
       \/ /\ file' = WriteCall(file, ReportLines)
          /\ Goto(IF Len(file'.lines) = Len(ReportLines) THEN "finish" ELSE "write")
    /\ UNCHANGED <<mining_vars, lookup_vars, classify_vars, tx_fee>>

\* lines 208-210: println!(..) and Ok(())
Finish ==
    /\ pc = "finish"
    /\ \/ Fail("panic", StdoutPanic)
       \/ /\ pc' = "ended"
          /\ result' = "Ok"
          /\ UNCHANGED error
    /\ UNCHANGED <<file, calls, mining_vars, lookup_vars, classify_vars, tx_fee>>

\* The state main is in at line 131 when the Miner wallet was funded before
\* the run: no block was mined in the loop, the payment is sent and the block
\* that confirms it is mined.
Init ==
    /\ pc = "get_transaction"
    /\ result = "running"
    /\ error = ""
    /\ file \in {NoFile, OldFile}
    /\ calls = {}
    /\ wallets = 2
    /\ funds = 1
    /\ coinbase_age = 0
    /\ balance = 1
    /\ blocks_mined = 0
    /\ generate_calls = 1
    /\ sent = TRUE
    /\ tx_info_blockhash = Null
    /\ block_height = 0
    /\ decoded_tx = NoTx
    /\ miner_input_address = Null
    /\ miner_input_amount = Zero
    /\ trader_output_address = Null
    /\ trader_output_amount = Zero
    /\ miner_change_address = Null
    /\ miner_change_amount = Zero
    /\ i = 0
    /\ queried = {}
    /\ tx_fee = Zero

Next ==
    \/ GetTransaction
    \/ GetBlockInfo
    \/ GetRawTransaction
    \/ DecodeRawTransaction
    \/ GetPrevRawTransaction
    \/ DecodePrevTransaction
    \/ Classify
    \/ CreateReport
    \/ Write
    \/ Finish

Spec == Init /\ [][Next]_vars

-----------------------------------------------------------------------------
(* Lines 41-129: wallets, the mining loop, the payment *)

resolver_vars == <<file, calls, lookup_vars, classify_vars, tx_fee>>

\* coinbase_age of a wallet that has no coinbase yet.
NoCoinbase == 0 - 1

\* What get_balance() of the Miner wallet answers, in block rewards: the
\* funds it had, and the oldest coinbase once Maturity blocks follow it.
NodeBalance(f, age) == f + (IF age >= Maturity THEN 1 ELSE 0)

\* generate_to_address(1, &mining_address): one more block, whose coinbase
\* pays the Miner wallet.
BlockMined(age) == age + 1

\* line 91: `while balance <= 0.0`
LoopCond_Negative(b) == b < 0
LoopCond(b) == b <= 0

\* lines 43-50: Client::new(..)?, get_blockchain_info()? and println!
Connect ==
    /\ pc = "connect"
    /\ \/ Fail("Err", "get_blockchain_info")
       \/ Fail("panic", StdoutPanic)
       \/ Goto("create_wallet")
    /\ UNCHANGED <<mining_vars, resolver_vars>>

\* lines 54-68: one iteration of `for wallet_name in ["Miner", "Trader"]`
CreateWallet ==
    /\ pc = "create_wallet"
    /\ wallets < 2
    /\ \E res \in {"Ok", "already exists", "other error"} :
          IF res = "other error"
          THEN /\ Fail("Err", "create_wallet")
               /\ UNCHANGED wallets
          ELSE /\ wallets' = wallets + 1
               /\ \/ Fail("panic", StdoutPanic)
                  \/ Goto(IF wallets + 1 = 2 THEN "mining_address" ELSE "create_wallet")
    /\ UNCHANGED <<funds, coinbase_age, balance, blocks_mined, generate_calls,
                   sent, resolver_vars>>

\* lines 70-84: the two wallet clients, get_new_address(Some("Mining Reward"))?
\* and println!
GetMiningAddress ==
    /\ pc = "mining_address"
    /\ \/ Fail("Err", "get_new_address")
       \/ Fail("panic", StdoutPanic)
       \/ Goto("get_balance")
    /\ UNCHANGED <<mining_vars, resolver_vars>>

\* lines 89-90: the balance before the loop, blocks_mined = 0
GetBalance ==
    /\ pc = "get_balance"
    /\ \/ /\ Fail("Err", "get_balance")
          /\ UNCHANGED <<balance, blocks_mined>>
       \/ /\ balance' = NodeBalance(funds, coinbase_age)
          /\ blocks_mined' = 0
          /\ Goto("mining")
    /\ UNCHANGED <<wallets, funds, coinbase_age, generate_calls, sent, resolver_vars>>

\* lines 91-93: the loop test, generate_to_address(1, &mining_address)?,
\* blocks_mined += 1
MineBlock ==
    /\ pc = "mining"
    /\ LoopCond(balance)
    /\ generate_calls' = generate_calls + 1
    /\ \/ /\ Fail("Err", "generate_to_address")
          /\ UNCHANGED <<coinbase_age, blocks_mined>>
       \/ /\ coinbase_age' = BlockMined(coinbase_age)
          /\ blocks_mined' = blocks_mined + 1
          /\ Goto("mined")
    /\ UNCHANGED <<wallets, funds, balance, sent, resolver_vars>>

\* line 94: balance = get_balance()?, back to the loop test
ReadBalance ==
    /\ pc = "mined"
    /\ \/ /\ Fail("Err", "get_balance(loop)")
          /\ UNCHANGED balance
       \/ /\ balance' = NodeBalance(funds, coinbase_age)
          /\ Goto("mining")
    /\ UNCHANGED <<wallets, funds, coinbase_age, blocks_mined, generate_calls,
                   sent, resolver_vars>>

\* lines 96-107: the loop is left; the println! of lines 96 and 100,
\* get_new_address(Some("Received"))? and println!
GetTraderAddress ==
    /\ pc = "mining"
    /\ ~LoopCond(balance)
    /\ \/ Fail("Err", "get_new_address")
       \/ Fail("panic", StdoutPanic)
       \/ Goto("send")
    /\ UNCHANGED <<mining_vars, resolver_vars>>

\* lines 110-120: send_to_address(&trader_address, 20 BTC, ..)? and println!
SendToAddress ==
    /\ pc = "send"
    /\ sent' = TRUE
    /\ \/ Fail("Err", "send_to_address")
       \/ Fail("panic", StdoutPanic)
       \/ Goto("mempool")
    /\ UNCHANGED <<wallets, funds, coinbase_age, balance, blocks_mined,
                   generate_calls, resolver_vars>>

\* lines 124-125: get_mempool_entry(&txid)? and println!
GetMempoolEntry ==
    /\ pc = "mempool"
    /\ \/ Fail("Err", "get_mempool_entry")
       \/ Fail("panic", StdoutPanic)
       \/ Goto("confirm")
    /\ UNCHANGED <<mining_vars, resolver_vars>>

\* lines 128-129: generate_to_address(1, &mining_address)? and println!
ConfirmBlock ==
    /\ pc = "confirm"
    /\ generate_calls' = generate_calls + 1
    /\ \/ /\ Fail("Err", "generate_to_address(confirm)")
          /\ UNCHANGED coinbase_age
       \/ /\ coinbase_age' = BlockMined(coinbase_age)
          /\ \/ Fail("panic", StdoutPanic)
             \/ Goto("get_transaction")
    /\ UNCHANGED <<wallets, funds, balance, blocks_mined, sent, resolver_vars>>

\* The state at the first line of main.  The Miner wallet of the node may be
\* new (no coinbase), may hold coinbases that are not yet mature, and may
\* hold spendable funds.
InitMining ==
    /\ pc = "connect"
    /\ result = "running"
    /\ error = ""
    /\ file \in {NoFile, OldFile}
    /\ calls = {}
    /\ wallets = 0
    /\ funds \in {0, 1}
    /\ coinbase_age \in NoCoinbase .. Maturity
    /\ balance = 0
    /\ blocks_mined = 0
    /\ generate_calls = 0
    /\ sent = FALSE
    /\ tx_info_blockhash = Null
    /\ block_height = 0
    /\ decoded_tx = NoTx
    /\ miner_input_address = Null
    /\ miner_input_amount = Zero
    /\ trader_output_address = Null
    /\ trader_output_amount = Zero
    /\ miner_change_address = Null
    /\ miner_change_amount = Zero
    /\ i = 0
    /\ queried = {}
    /\ tx_fee = Zero

NextMining ==
    \/ Connect
    \/ CreateWallet
    \/ GetMiningAddress
    \/ GetBalance
    \/ MineBlock
    \/ ReadBalance
    \/ GetTraderAddress
    \/ SendToAddress
    \/ GetMempoolEntry
    \/ ConfirmBlock

MiningSpec == InitMining /\ [][NextMining]_vars

\* main is sequential and every call returns: a step that can be taken is taken.
FairMiningSpec == MiningSpec /\ WF_vars(NextMining)

-----------------------------------------------------------------------------
(* Properties of lines 131-211, checked under Spec *)

vout == decoded_tx.vout

\* The loop has run over the outputs 1 .. Processed.
Processed == IF i = 0 THEN 0 ELSE i - 1
Classified == i = Len(vout) + 1

Untouched == file \in {NoFile, OldFile}

IsPrefix(s, t) == Len(s) <= Len(t) /\ \A k \in 1 .. Len(s) : s[k] = t[k]

Max(S) == CHOOSE x \in S : \A y \in S : y <= x
Min(S) == CHOOSE x \in S : \A y \in S : x <= y

\* Two amounts differ by at most one atomic unit.
WithinOneUnit(a, b) == AmtSub(a, b) \in {Amt(0, 0 - 1), Zero, Amt(0, 1)}

\* Do the amounts of the computation stay below 2^24 BTC?
AllSmall(input_amount, trader_amount, change_amount) ==
    /\ input_amount.big = 0
    /\ AmtAdd(trader_amount, change_amount).big = 0

\* Positions among the first n outputs that pay the recipient address.
RecipientOutputs(n) == {k \in 1 .. n : vout[k].address = TraderAddress}

\* Positions among the first n outputs that pay neither nobody nor the
\* recipient, and of these the ones the wallet answers "mine" for.
Candidates(n) ==
    {k \in 1 .. n : vout[k].address # None /\ vout[k].address # TraderAddress}
Owned(n) ==
    {k \in Candidates(n) :
        LET info == get_address_info(vout[k].address)
        IN info.ok /\ info.is_mine = "true"}
LookupFails(n) ==
    {k \in Candidates(n) : ~get_address_info(vout[k].address).ok}

\* C1, as claimed: when two or more outputs pay the recipient address, the
\* Recipient address and amount are those of the FIRST of them, and the later
\* ones do not alter the Recipient fields.
C1_FirstRecipientWins ==
    (Classified /\ Cardinality(RecipientOutputs(Len(vout))) >= 2)
        => /\ trader_output_address = vout[Min(RecipientOutputs(Len(vout)))].address
           /\ trader_output_amount = vout[Min(RecipientOutputs(Len(vout)))].value

\* The file holds all ten lines of the report and nothing else.
Complete == file.exists /\ file.lines = ReportLines /\ file.part = 0

\* C2, as claimed: when the run has ended, the report is untouched or holds
\* the complete ten lines.
C2_ReportAtomic ==
    pc = "ended" => (Untouched \/ Complete)

\* The calls whose failure ends the run before the report is created.
FatalLookups ==
    {"get_transaction", "get_block_info", "get_raw_transaction",
     "decode_raw_transaction", "get_raw_transaction(prev)",
     "decode_raw_transaction(prev)"}

\* C2, amended: the report is untouched until File::create is called, which
\* happens only after every fatal lookup has succeeded and the outputs are
\* classified (a failed ownership lookup is not fatal and does not keep the
\* report from being written); so a run ended by a failed fatal lookup, by a
\* panic before File::create (an expect, an index, a println!) or by a
\* failed File::create leaves it untouched.  From File::create on the file
\* holds a prefix of the bytes of the ten lines: a failed write ends the run
\* with a proper prefix on disk (empty after a failed first write), which
\* may end inside a line; the ten lines are complete once the last write has
\* returned, and then the run ends Ok or, when the println! of line 208
\* panics, by that panic with the complete report on disk.
C2_ReportPrefix ==
    /\ "File::create" \notin calls => Untouched
    /\ "File::create" \in calls
         => (FatalLookups \subseteq calls /\ Classified
               /\ error \in {"", "File::create", "writeln", StdoutPanic})
    /\ (pc = "ended" /\ result # "Ok" /\ error \notin {"writeln", StdoutPanic})
         => Untouched
    /\ ~Untouched
         => /\ file.exists
            /\ IsPrefix(file.lines, ReportLines)
            /\ file.part >= 0
            /\ file.part > 0
                 => /\ Len(file.lines) < Len(ReportLines)
                    /\ file.part < WritesOf(ReportLines[Len(file.lines) + 1])
    /\ (pc = "ended" /\ error = "writeln")
          => (result = "Err" /\ file.exists /\ Len(file.lines) < Len(ReportLines))
    /\ (pc = "ended" /\ error = StdoutPanic)
          => /\ result = "panic"
             /\ IF "File::create" \in calls THEN Complete ELSE Untouched
    /\ result = "Ok" => Complete
    /\ Complete <=> \/ pc = "finish"
                    \/ pc = "ended" /\ result = "Ok"
                    \/ pc = "ended" /\ error = StdoutPanic /\ "File::create" \in calls

\* A write inside the third line fails, after an ownership lookup that
\* failed: the old report is gone and the file ends inside a line.
C2_Witness ==
    /\ pc = "ended"
    /\ result = "Err"
    /\ error = "writeln"
    /\ Len(file.lines) = 2
    /\ file.part = 1
    /\ file.lines[2] = Text(FundingAddress)
    /\ LookupFails(Len(vout)) # {}

\* One input and exactly two outputs, one to the recipient address and one
\* to an address of the sending wallet.
RecipientPlusChange ==
    /\ decoded_tx.nin = 1
    /\ Len(vout) = 2
    /\ \E k \in 1 .. 2 :
          /\ vout[k].address = TraderAddress
          /\ vout[3 - k].address \in WalletAddrs

\* C3: for a transaction with one input and exactly two outputs (recipient
\* and change), the amounts written to the report satisfy
\* fundingAmount = recipientAmount + changeAmount + fee within one atomic
\* unit, and exactly while the amounts are below 2^24 BTC; fee is the
\* reported absolute value of fundingAmount - (recipientAmount + changeAmount).
C3_ValueConservation ==
    (result = "Ok" /\ RecipientPlusChange)
        => LET funding == file.lines[3].num
               recipient == file.lines[5].num
               change == file.lines[7].num
               fee == file.lines[8].num
               rest == AmtSub(funding, AmtAdd(recipient, change))
           IN /\ WithinOneUnit(funding, AmtAdd(AmtAdd(recipient, change), fee))
              /\ WithinOneUnit(fee, Abs(rest))
              /\ AllSmall(funding, recipient, change)
                   => /\ funding = AmtAdd(AmtAdd(recipient, change), fee)
                      /\ fee = Abs(rest)

C3_Witness ==
    /\ result = "Ok"
    /\ RecipientPlusChange
    /\ file.lines[5].num # file.lines[7].num
    /\ AmtSub(file.lines[3].num,
              AmtAdd(AmtAdd(file.lines[5].num, file.lines[7].num),
                     file.lines[8].num)) = Amt(0, 1)

\* The run has ended by the panic of a println!.
StdoutFailed == pc = "ended" /\ result = "panic" /\ error = StdoutPanic

\* C4, as claimed: an output whose ownership lookup fails never becomes the
\* Change output, the failure does not end the run, the remaining outputs
\* are classified and the run goes on to the fee and to File::create.
C4_LookupFailureNotFatal ==
    LookupFails(Processed) # {}
        => /\ \A k \in LookupFails(Processed) : miner_change_address # vout[k].address
           /\ pc = "classify" => result = "running"
           /\ pc # "classify"
                => (Classified /\ (pc = "create" \/ "File::create" \in calls))
           /\ LookupFails(Processed) \subseteq queried

\* C4, amended: an output whose ownership lookup fails never becomes the
\* Change output and the failed lookup does not end the run: between the
\* start of the loop and File::create the run ends in no other way than by
\* the panic of a println! (lines 170, 187-190), and unless that happens the
\* remaining outputs are classified and the run goes on to the fee and to
\* File::create.
C4_LookupFailureSwallowed ==
    /\ (pc = "ended" /\ i >= 1 /\ "File::create" \notin calls) => StdoutFailed
    /\ LookupFails(Processed) # {}
        => /\ \A k \in LookupFails(Processed) : miner_change_address # vout[k].address
           /\ pc = "classify" => result = "running"
           /\ (pc # "classify" /\ ~StdoutFailed)
                => (Classified /\ (pc = "create" \/ "File::create" \in calls))
           /\ LookupFails(Processed) \subseteq queried

C4_Witness ==
    /\ result = "Ok"
    /\ 1 \in LookupFails(Len(vout))
    /\ 2 \in Owned(Len(vout))
    /\ miner_change_address = vout[2].address

\* The previous transaction could not be fetched, or vin[0].vout is no index
\* of its output list.
FundingUnresolved ==
    \/ error = "get_raw_transaction(prev)"
    \/ /\ "decode_raw_transaction(prev)" \in calls
       /\ decoded_tx.prev_vout = 1
       /\ error = "index out of bounds"

\* C5, as claimed: if the previous transaction cannot be fetched or the
\* referenced index is out of range, main ends with an error result and the
\* report is neither created nor modified.
C5_FundingFailureIsError ==
    FundingUnresolved => (pc = "ended" /\ result = "Err" /\ Untouched)

\* At most one Recipient and one Change result, each with the address and
\* the amount of one and the same output; empty address and zero amount
\* when no output pays the recipient, resp. when the wallet owns no output's
\* address.
ResultShape ==
    /\ \/ trader_output_address = "" /\ trader_output_amount = Zero
       \/ \E k \in RecipientOutputs(Len(vout)) :
             /\ trader_output_address = vout[k].address
             /\ trader_output_amount = vout[k].value
    /\ \/ miner_change_address = "" /\ miner_change_amount = Zero
       \/ \E k \in Owned(Len(vout)) :
             /\ miner_change_address = vout[k].address
             /\ miner_change_amount = vout[k].value
    /\ RecipientOutputs(Len(vout)) = {}
         => (trader_output_address = "" /\ trader_output_amount = Zero)
    /\ Owned(Len(vout)) = {}
         => (miner_change_address = "" /\ miner_change_amount = Zero)

\* C6, as claimed: the result has this shape after the classification, and
\* the classification never fails: the loop, once entered, runs to its end
\* and hands over to the fee and File::create.
C6_ResultShape ==
    /\ Classified
         => /\ ResultShape
            /\ "File::create" \in calls \/ (pc = "create" /\ result = "running")
    /\ (i >= 1 /\ ~Classified) => (pc = "classify" /\ result = "running")

\* C6, amended: the result has this shape after the classification, and no
\* outcome of the classification (no recipient, no owned address, a failed
\* lookup) ends the run; the loop runs to its end and hands over to the fee
\* and File::create unless a println! (lines 170, 187-190) panics.
C6_ResultShapeStdoutApart ==
    /\ Classified
         => /\ ResultShape
            /\ \/ "File::create" \in calls
               \/ pc = "create" /\ result = "running"
               \/ StdoutFailed
    /\ (i >= 1 /\ ~Classified)
         => (pc = "classify" /\ result = "running") \/ StdoutFailed

C6_Witness ==
    /\ Classified
    /\ Len(vout) = 2
    /\ RecipientOutputs(2) = {}
    /\ Owned(2) = {}
    /\ Candidates(2) # {}
    /\ trader_output_address = ""
    /\ miner_change_address = ""
    /\ result = "Ok"

\* The ten lines a successful run is to leave, the fee line apart.
ExpectedReport ==
    << Text(Txid),
       Text(miner_input_address),
       Btc8(miner_input_amount),
       Text(trader_output_address),
       Btc8(trader_output_amount),
       Text(miner_change_address),
       Btc8(miner_change_amount),
       Btc8(Zero),
       Num(block_height),
       Text(tx_info_blockhash) >>

\* The fee line: an amount with 8 decimals, not negative, the absolute value
\* of funding - (recipient + change) to within one atomic unit, and exactly
\* that while the amounts are below 2^24 BTC.
ExpectedFeeLine(line) ==
    LET rest == AmtSub(miner_input_amount,
                       AmtAdd(trader_output_amount, miner_change_amount))
    IN /\ line.kind = "btc8"
       /\ ~AmtNegative(line.num)
       /\ WithinOneUnit(line.num, Abs(rest))
       /\ AllSmall(miner_input_amount, trader_output_amount, miner_change_amount)
            => line.num = Abs(rest)

ExpectedPrefix(lines) ==
    /\ Len(lines) <= 10
    /\ \A k \in 1 .. Len(lines) :
          IF k = 8 THEN ExpectedFeeLine(lines[k]) ELSE lines[k] = ExpectedReport[k]

\* C7: a successful run leaves exactly these ten lines, in this order; an
\* absent recipient or change address is an empty line; the fee line is not
\* negative; and while the report is written nothing else gets into it.
C7_ReportLayout ==
    /\ result = "Ok"
         => /\ file.exists
            /\ Len(file.lines) = 10
            /\ file.part = 0
            /\ ExpectedPrefix(file.lines)
            /\ RecipientOutputs(Len(vout)) = {} => file.lines[4] = Text("")
            /\ Owned(Len(vout)) = {} => file.lines[6] = Text("")
    /\ pc \in {"write", "finish"} => ExpectedPrefix(file.lines)

C7_Witness ==
    /\ result = "Ok"
    /\ AmtNegative(tx_fee)
    /\ file.lines[2] = Text("")
    /\ file.lines[6] = Text("")

\* C8: when get_transaction reports no block hash, main ends at once with
\* the failure "Transaction should be confirmed in a block": no block
\* lookup, no funding resolution, no classification, no report.
C8_UnconfirmedIsFatal ==
    tx_info_blockhash = None
        => /\ pc = "ended"
           /\ result = "panic"
           /\ error = "Transaction should be confirmed in a block"
           /\ calls = {"get_transaction"}
           /\ i = 0
           /\ Untouched

C8_Witness ==
    /\ tx_info_blockhash = None
    /\ pc = "ended"
    /\ file = OldFile

\* The value of the last output the wallet owns, zero if it owns none.
LastOwnedValue ==
    IF Owned(Len(vout)) = {} THEN Zero ELSE vout[Max(Owned(Len(vout)))].value

\* C9: get_address_info is called for exactly the outputs that have an
\* address other than the recipient's; an output paying the recipient is
\* never the Change; the Change is the LAST output the wallet owns, and the
\* fee is computed with that output's amount alone (to within one atomic
\* unit, exactly while the amounts are below 2^24 BTC).
C9_LastOwnedIsChange ==
    /\ queried = Candidates(Processed)
    /\ Processed > 0 =>
         /\ miner_change_address # TraderAddress
         /\ Owned(Processed) # {}
              => /\ miner_change_address = vout[Max(Owned(Processed))].address
                 /\ miner_change_amount = vout[Max(Owned(Processed))].value
         /\ Owned(Processed) = {}
              => (miner_change_address = "" /\ miner_change_amount = Zero)
    /\ "File::create" \in calls =>
         LET rest == AmtSub(miner_input_amount,
                            AmtAdd(trader_output_amount, LastOwnedValue))
         IN /\ WithinOneUnit(tx_fee, rest)
            /\ AllSmall(miner_input_amount, trader_output_amount, LastOwnedValue)
                 => tx_fee = rest

C9_Witness ==
    /\ result = "Ok"
    /\ Owned(Len(vout)) = {1, 2}
    /\ vout[1].address # vout[2].address
    /\ vout[1].value # vout[2].value
    /\ miner_change_address = vout[2].address
    /\ tx_fee = AmtSub(miner_input_amount, vout[2].value)

-----------------------------------------------------------------------------
(* Properties of lines 86-119, checked under FairMiningSpec *)

BeforeLoop == {"connect", "create_wallet", "mining_address", "get_balance"}
InLoop == {"mining", "mined"}
AfterLoop == {"send", "mempool", "confirm", "get_transaction"}

MiningLoopSafe ==
    /\ pc \in AfterLoop => balance > 0
    /\ sent => balance > 0
    /\ pc \in {"send", "mempool", "confirm"} => blocks_mined = generate_calls
    /\ pc \in InLoop => blocks_mined = generate_calls
    /\ (pc \in InLoop \cup AfterLoop /\ funds > 0) => blocks_mined = 0
    /\ blocks_mined <= Maturity + 1
    /\ pc = "mining" => balance = NodeBalance(funds, coinbase_age)
    /\ pc = "mined" => (balance <= 0 /\ blocks_mined > 0)
    /\ error \in {"generate_to_address", "get_balance", "get_balance(loop)"}
         => (pc = "ended" /\ result = "Err" /\ ~sent)

\* C10: the loop mines one block per iteration and re-reads the balance
\* after it; it is left only with a positive balance and with blocks_mined
\* equal to the number of generate calls; nothing is sent while the balance
\* is <= 0; an RPC error in the loop ends the run; and, a coinbase being
\* spendable once Maturity blocks follow it, the loop is left after at most
\* Maturity + 1 blocks.
C10_MiningLoop ==
    /\ []MiningLoopSafe
    /\ [][blocks_mined' # blocks_mined
            => /\ blocks_mined' = blocks_mined + 1
               /\ coinbase_age' = coinbase_age + 1
               /\ pc' = "mined"]_vars
    /\ [][pc = "mined"
            => \/ pc' = "mining" /\ balance' = NodeBalance(funds, coinbase_age)
               \/ pc' = "ended" /\ result' = "Err"]_vars
    /\ <>(pc \notin BeforeLoop \cup InLoop)

C10_Witness ==
    /\ pc = "send"
    /\ blocks_mined = Maturity + 1
    /\ generate_calls = Maturity + 1
    /\ balance > 0

=============================================================================
